---------------------------- MODULE Spec2Model ----------------------------
(***************************************************************************)
(* Model of the IP-Management service: the subnet calculator               *)
(* (core/ip_calculator.py) and the allocation service                      *)
(* (services/ip_service.py) over the relational store                      *)
(* (models/database.py).                                                   *)
(*                                                                         *)
(* An IPv4 address is the tuple of its four octets, <<a, b, c, d>> for     *)
(* "a.b.c.d"; a tuple with an octet above 255 stands for a literal that    *)
(* ipaddress.IPv4Address rejects.  A netmask string is a record: Cidr(p)   *)
(* for "/p", Dotted(o) for the dotted-decimal literal with octets o, and   *)
(* TextMask for a string that is neither.                                  *)
(***************************************************************************)
EXTENDS Integers, Sequences, FiniteSets, TLC

VARIABLES
    calc_req,     \* the last request to the calculator
    plan,         \* what calculate_subnet_info returned for it
    conf,         \* what validate_vlan_configuration returned for it
    domains,      \* table domains: sequence of rows, id = index
    value_streams, \* table value_streams: sequence of rows, id = index
    zones,        \* table zones: sequence of rows, id = index
    vlans,        \* table vlans: sequence of rows, a row's id is its index
    assignments,  \* table ip_assignments: sequence of rows, id = index
    pc,           \* per request handler: where it is in its operation
    req,          \* per request handler: the request it is serving
    last          \* the outcome of the handler call that finished last

vars ==
    <<calc_req, plan, conf, domains, value_streams, zones, vlans,
      assignments, pc, req, last>>

calcVars == <<calc_req, plan, conf>>
hierVars == <<domains, value_streams>>
storeVars == <<domains, value_streams, zones, vlans, assignments>>

---------------------------------------------------------------------------
(* Program constants *)

RESERVED_START_COUNT == 6
RESERVED_END_COUNT == 1

---------------------------------------------------------------------------
(* IPv4 addresses: ipaddress.IPv4Address as used by the calculator *)

Pow2(k) == 2 ^ k

IsValidAddr(a) == \A i \in 1..4 : a[i] \in 0..255

\* the low 24 bits of an address, as an integer
Low24(a) == a[2] * 65536 + a[3] * 256 + a[4]

MkAddr(top, low) == <<top, low \div 65536, (low \div 256) % 256, low % 256>>

\* IPv4Address + k (k may be negative); hosts[i] is HostsFirst + i
AddrAdd(a, k) ==
    LET s == Low24(a) + k
    IN  MkAddr(a[1] + (s \div 16777216), s % 16777216)

\* int(a) - int(b)
AddrDiff(a, b) == (a[1] - b[1]) * 16777216 + (Low24(a) - Low24(b))

AddrLE(a, b) == a[1] < b[1] \/ (a[1] = b[1] /\ Low24(a) <= Low24(b))

AddrLT(a, b) == AddrLE(a, b) /\ a # b

---------------------------------------------------------------------------
(* Netmask strings *)

Cidr(p) == [form |-> "cidr", prefix |-> p, octets |-> <<0, 0, 0, 0>>]
Dotted(o) == [form |-> "dotted", prefix |-> 0, octets |-> o]
TextMask == [form |-> "text", prefix |-> 0, octets |-> <<0, 0, 0, 0>>]

\* bin(int(octet)).count('1')
RECURSIVE PopCount(_)
PopCount(n) == IF n = 0 THEN 0 ELSE (n % 2) + PopCount(n \div 2)

\* the prefix length of a dotted mask taken as eight bits for every
\* non-zero octet
DottedPrefixLenWholeOctets(o) ==
    8 * Cardinality({i \in 1..4 : o[i] # 0})

\* sum(bin(int(octet)).count('1') for octet in str(netmask_obj).split('.'))
DottedPrefixLen(o) ==
    PopCount(o[1]) + PopCount(o[2]) + PopCount(o[3]) + PopCount(o[4])

---------------------------------------------------------------------------
(* ipaddress.IPv4Network(..., strict=False) *)

NetBits(p, i) ==
    IF p - 8 * (i - 1) < 0 THEN 0
    ELSE IF p - 8 * (i - 1) > 8 THEN 8 ELSE p - 8 * (i - 1)

\* network_address: the address with its host bits cleared
NetOctet(a, p, i) == a[i] - (a[i] % Pow2(8 - NetBits(p, i)))

NetworkAddress(a, p) ==
    <<NetOctet(a, p, 1), NetOctet(a, p, 2), NetOctet(a, p, 3), NetOctet(a, p, 4)>>

\* broadcast_address: the address with its host bits set
BcastOctet(a, p, i) == NetOctet(a, p, i) + Pow2(8 - NetBits(p, i)) - 1

BroadcastAddress(a, p) ==
    <<BcastOctet(a, p, 1), BcastOctet(a, p, 2), BcastOctet(a, p, 3),
      BcastOctet(a, p, 4)>>

IPv4Network(a, p) == [addr |-> NetworkAddress(a, p), prefix |-> p]

NoNetwork == [addr |-> <<0, 0, 0, 0>>, prefix |-> -1]

Broadcast(net) == BroadcastAddress(net.addr, net.prefix)

\* network.num_addresses
NumAddresses(net) == AddrDiff(Broadcast(net), net.addr) + 1

\* ip in network
InNetwork(ip, net) == AddrLE(net.addr, ip) /\ AddrLE(ip, Broadcast(net))

\* list(network.hosts()): the addresses strictly between network and
\* broadcast; both addresses of a /31, the single address of a /32
HostsFirst(net) ==
    IF net.prefix >= 31 THEN net.addr ELSE AddrAdd(net.addr, 1)

HostsLen(net) ==
    IF net.prefix >= 31 THEN NumAddresses(net) ELSE NumAddresses(net) - 2

\* hosts[i], 0-based; hosts[-k] is HostAt(net, HostsLen(net) - k)
HostAt(net, i) == AddrAdd(HostsFirst(net), i)

InHosts(ip, net) ==
    /\ AddrLE(HostsFirst(net), ip)
    /\ AddrLE(ip, HostAt(net, HostsLen(net) - 1))

\* hosts.index(ip)
HostIndex(ip, net) == AddrDiff(ip, HostsFirst(net))

\* str(network.netmask)
MaskOctet(p, i) == 256 - Pow2(8 - NetBits(p, i))

NetmaskOctets(p) ==
    <<MaskOctet(p, 1), MaskOctet(p, 2), MaskOctet(p, 3), MaskOctet(p, 4)>>

\* ipaddress._count_righthand_zero_bits(ip_int, 32)
RECURSIVE ZeroBits8(_)
ZeroBits8(n) == IF n % 2 = 1 THEN 0 ELSE 1 + ZeroBits8(n \div 2)

RighthandZeroBits(o) ==
    IF o[4] # 0 THEN ZeroBits8(o[4])
    ELSE IF o[3] # 0 THEN 8 + ZeroBits8(o[3])
    ELSE IF o[2] # 0 THEN 16 + ZeroBits8(o[2])
    ELSE IF o[1] # 0 THEN 24 + ZeroBits8(o[1])
    ELSE 32

\* ipaddress._prefix_from_ip_int: prefixlen = 32 - trailing zeroes, and
\* the bits above them must all be ones (the value is then the netmask of
\* prefixlen); -1 where the library raises ValueError
PrefixFromIpInt(o) ==
    LET prefixlen == 32 - RighthandZeroBits(o)
    IN  IF o = NetmaskOctets(prefixlen) THEN prefixlen ELSE -1

\* ip_int ^ ALL_ONES
InvertOctets(o) == <<255 - o[1], 255 - o[2], 255 - o[3], 255 - o[4]>>

\* ipaddress._prefix_from_ip_string: a netmask, else a hostmask, else
\* NetmaskValueError (-1)
PrefixFromIpString(o) ==
    IF ~IsValidAddr(o) THEN -1
    ELSE IF PrefixFromIpInt(o) # -1 THEN PrefixFromIpInt(o)
    ELSE PrefixFromIpInt(InvertOctets(o))

---------------------------------------------------------------------------
(* IPCalculator *)

IPRange(s, e, r) == [start_ip |-> s, end_ip |-> e, is_reserved |-> r]

\* _generate_ip_ranges with the assignable range running up to the last
\* host (RESERVED_END_COUNT not taken off the end index)
GenerateIpRangesToLastHost(net) ==
    LET len == HostsLen(net)
    IN  <<IPRange(HostAt(net, 0), HostAt(net, RESERVED_START_COUNT - 1), TRUE),
          IPRange(HostAt(net, RESERVED_START_COUNT), HostAt(net, len - 1),
                  FALSE),
          IPRange(HostAt(net, len - 1), HostAt(net, len - 1), TRUE)>>

\* _generate_ip_ranges with the first block one address short, leaving the
\* sixth host in no range
GenerateIpRangesShortBlock(net) ==
    LET len == HostsLen(net)
    IN  <<IPRange(HostAt(net, 0), HostAt(net, RESERVED_START_COUNT - 2), TRUE),
          IPRange(HostAt(net, RESERVED_START_COUNT),
                  HostAt(net, len - RESERVED_END_COUNT - 1), FALSE),
          IPRange(HostAt(net, len - 1), HostAt(net, len - 1), TRUE)>>

\* IPCalculator._generate_ip_ranges
GenerateIpRanges(net) ==
    LET len == HostsLen(net)
        assignable_start == RESERVED_START_COUNT
        assignable_end == len - RESERVED_END_COUNT - 1
        r1 == IF len >= RESERVED_START_COUNT
              THEN <<IPRange(HostAt(net, 0),
                             HostAt(net, RESERVED_START_COUNT - 1), TRUE)>>
              ELSE <<>>
        r2 == IF assignable_start <= assignable_end
              THEN <<IPRange(HostAt(net, assignable_start),
                             HostAt(net, assignable_end), FALSE)>>
              ELSE <<>>
        r3 == IF len >= RESERVED_END_COUNT
              THEN <<IPRange(HostAt(net, len - 1), HostAt(net, len - 1), TRUE)>>
              ELSE <<>>
    IN  r1 \o r2 \o r3

\* the prefix length calculate_subnet_info builds the network with;
\* -1 where ipaddress raises AddressValueError / ValueError
SubnetPrefix(subnet, netmask) ==
    IF netmask.form = "cidr"
    THEN IF IsValidAddr(subnet) /\ netmask.prefix \in 0..32
         THEN netmask.prefix ELSE -1
    ELSE IF netmask.form = "dotted"
    THEN IF IsValidAddr(netmask.octets) /\ IsValidAddr(subnet)
         THEN DottedPrefixLen(netmask.octets) ELSE -1
    ELSE -1

\* the minimum-size test of calculate_subnet_info
TooSmall(total_hosts) ==
    total_hosts < (RESERVED_START_COUNT + RESERVED_END_COUNT) + 1

\* calculate_subnet_info counting the network and broadcast addresses
\* among the hosts
CalculateSubnetInfoAllAddresses(subnet, netmask) ==
    LET p == SubnetPrefix(subnet, netmask)
        network == IPv4Network(subnet, p)
    IN  IF p = -1
        THEN [status |-> "InvalidSubnetError", network |-> NoNetwork,
              ranges |-> <<>>]
        ELSE IF TooSmall(NumAddresses(network))
        THEN [status |-> "InsufficientIPSpaceError", network |-> NoNetwork,
              ranges |-> <<>>]
        ELSE [status |-> "ok", network |-> network,
              ranges |-> GenerateIpRanges(network)]

\* IPCalculator.calculate_subnet_info
CalculateSubnetInfo(subnet, netmask) ==
    LET p == SubnetPrefix(subnet, netmask)
        network == IPv4Network(subnet, p)
    IN  IF p = -1
        THEN [status |-> "InvalidSubnetError", network |-> NoNetwork,
              ranges |-> <<>>]
        ELSE IF TooSmall(NumAddresses(network) - 2)
        THEN [status |-> "InsufficientIPSpaceError", network |-> NoNetwork,
              ranges |-> <<>>]
        ELSE [status |-> "ok", network |-> network,
              ranges |-> GenerateIpRanges(network)]

\* get_default_gateway answering with the network address
GetDefaultGatewayNetworkAddress(net) == net.addr

\* IPCalculator.get_default_gateway
GetDefaultGateway(net) ==
    IF HostsLen(net) > 0 THEN HostAt(net, 0) ELSE net.addr

\* IPCalculator.get_net_start_end: <<start_ip, end_ip>>, or the error it
\* raises for a network with fewer hosts than the reserved addresses
GetNetStartEnd(net) ==
    IF HostsLen(net) < RESERVED_START_COUNT + RESERVED_END_COUNT
    THEN "InsufficientIPSpaceError"
    ELSE <<HostAt(net, RESERVED_START_COUNT),
           HostAt(net, HostsLen(net) - (RESERVED_END_COUNT + 1))>>

\* "assignable_ips" of validate_vlan_configuration
AssignableIps(ranges) ==
    Len(SelectSeq(ranges, LAMBDA r : ~r.is_reserved))

NoConf(st) ==
    [status |-> st, vlan_id |-> 0, network |-> NoNetwork,
     subnet |-> <<0, 0, 0, 0>>, netmask |-> <<0, 0, 0, 0>>,
     default_gateway |-> <<0, 0, 0, 0>>, net_start |-> <<0, 0, 0, 0>>,
     net_end |-> <<0, 0, 0, 0>>, total_ips |-> 0, assignable_ips |-> 0,
     reserved_ranges |-> <<>>]

\* IPCalculator.validate_vlan_configuration
ValidateVlanConfiguration(vlan_id, subnet, netmask) ==
    LET info == CalculateSubnetInfo(subnet, netmask)
        net == info.network
    IN  IF ~(1 <= vlan_id /\ vlan_id <= 4094)
        THEN NoConf("InvalidSubnetError")
        ELSE IF info.status # "ok" THEN NoConf(info.status)
        ELSE [status |-> "ok", vlan_id |-> vlan_id, network |-> net,
              subnet |-> net.addr, netmask |-> NetmaskOctets(net.prefix),
              default_gateway |-> GetDefaultGateway(net),
              net_start |-> GetNetStartEnd(net)[1],
              net_end |-> GetNetStartEnd(net)[2],
              total_ips |-> NumAddresses(net) - 2,
              assignable_ips |-> AssignableIps(info.ranges),
              reserved_ranges |-> SelectSeq(info.ranges,
                                            LAMBDA r : r.is_reserved)]

\* is_ip_assignable with the start block one address too long
IsIpAssignableOffByOne(ip, net) ==
    IF ~InNetwork(ip, net) THEN "False"
    ELSE IF ~InHosts(ip, net) THEN "ValueError"
    ELSE IF HostIndex(ip, net) <= RESERVED_START_COUNT
            \/ HostIndex(ip, net) >= HostsLen(net) - RESERVED_END_COUNT
    THEN "False"
    ELSE "True"

\* IPCalculator.is_ip_assignable; "ValueError" where hosts.index(ip)
\* raises (the network and broadcast addresses are in the network but
\* not in hosts())
IsIpAssignable(ip, net) ==
    IF ~InNetwork(ip, net) THEN "False"
    ELSE IF ~InHosts(ip, net) THEN "ValueError"
    ELSE IF HostIndex(ip, net) < RESERVED_START_COUNT
            \/ HostIndex(ip, net) >= HostsLen(net) - RESERVED_END_COUNT
    THEN "False"
    ELSE "True"

\* the classification of an address against a network, as assign_ip makes
\* it: the subnet test first, then is_ip_assignable
Membership(ip, net) ==
    IF ~InNetwork(ip, net) THEN "NotInNetwork"
    ELSE IF IsIpAssignable(ip, net) = "True" THEN "Assignable"
    ELSE IF IsIpAssignable(ip, net) = "False" THEN "Reserved"
    ELSE "ValueError"

---------------------------------------------------------------------------
(* Bounds and the inputs the handlers are called with *)

NumHandlers == 2
MaxVlans == 2
MaxAssignments == 2
MaxDomains == 2
MaxValueStreams == 2
MaxZones == 1

Handlers == 1..NumHandlers

NoMac == "none"

ZonePool == {1, 2}
TagPool == {100, 200}
SubnetPool == {<<10, 1, 0, 0>>}
MaskPool ==
    {Cidr(28), Dotted(<<255, 255, 255, 240>>), Dotted(<<0, 1, 255, 255>>),
     Cidr(30)}
IpPool ==
    {<<10, 1, 0, 0>>, <<10, 1, 0, 1>>, <<10, 1, 0, 6>>, <<10, 1, 0, 7>>,
     <<10, 1, 0, 8>>, <<10, 1, 0, 13>>, <<10, 1, 0, 14>>, <<10, 1, 0, 15>>,
     <<10, 1, 0, 16>>, <<10, 1, 200, 1>>}
MacPool == {NoMac, "00:11:22:33:44:55", "00:11:22:33:44:66"}
CiNamePool == {"PLC-A2-001", "TEST-DEVICE-001"}

\* the assign requests the handlers receive: <<ip, mac, ci_name, is_active>>
AssignPool ==
    {<<<<10, 1, 0, 7>>, "00:11:22:33:44:55", "PLC-A2-001", TRUE>>,
     <<<<10, 1, 0, 7>>, "00:11:22:33:44:66", "TEST-DEVICE-001", TRUE>>,
     <<<<10, 1, 0, 8>>, "00:11:22:33:44:55", "PLC-A2-001", TRUE>>,
     <<<<10, 1, 0, 8>>, NoMac, "PLC-A2-001", FALSE>>,
     <<<<10, 1, 200, 1>>, NoMac, "PLC-A2-001", TRUE>>,
     <<<<10, 1, 0, 1>>, NoMac, "PLC-A2-001", TRUE>>,
     <<<<10, 1, 0, 15>>, NoMac, "PLC-A2-001", TRUE>>}

---------------------------------------------------------------------------
(* The store: models/database.py *)

\* a row of table vlans
VlanRow(r, c) ==
    [zone_id |-> r.zone_id, vlan_id |-> r.vlan_id, subnet |-> r.subnet,
     netmask |-> r.netmask, default_gateway |-> c.default_gateway,
     net_start |-> c.net_start, net_end |-> c.net_end,
     is_active |-> r.is_active]

\* a row of table ip_assignments
AssignmentRow(r) ==
    [vlan_id |-> r.vlan, ip_address |-> r.ip_address,
     mac_address |-> r.mac_address, ci_name |-> r.ci_name,
     is_active |-> r.is_active]

\* a row of table domains; a deleted row stays in the sequence with
\* stored = FALSE, so that ids are never used twice
DomainRow(r) == [code |-> r.code, is_active |-> r.is_active, stored |-> TRUE]

\* a row of table value_streams
ValueStreamRow(r) ==
    [domain_id |-> r.domain_id, code |-> r.code, is_active |-> r.is_active]

\* a row of table zones
ZoneRow(r) == [value_stream_id |-> r.value_stream_id]

DomainIds == {i \in 1..Len(domains) : domains[i].stored}
ValueStreamIds == 1..Len(value_streams)
ZoneIds == 1..Len(zones)
VlanIds == 1..Len(vlans)
AssignmentIds == 1..Len(assignments)

\* UniqueConstraint("vlan_id", name="uq_vlan_id")
UqVlanId(rows, row) == \A i \in 1..Len(rows) : rows[i].vlan_id # row.vlan_id

\* UniqueConstraint("ip_address", name="uq_ip_address")
UqIpAddress(rows, row) ==
    \A i \in 1..Len(rows) : rows[i].ip_address # row.ip_address

\* UniqueConstraint("mac_address", name="uq_mac_address"); NULLs are
\* distinct from each other
UqMacAddress(rows, row) ==
    row.mac_address = NoMac
    \/ \A i \in 1..Len(rows) : rows[i].mac_address # row.mac_address

---------------------------------------------------------------------------
(* Requests and outcomes *)

NoReq ==
    [op |-> "none", zone_id |-> 0, vlan_id |-> 0, subnet |-> <<0, 0, 0, 0>>,
     netmask |-> TextMask, vlan |-> 0, ip_address |-> <<0, 0, 0, 0>>,
     mac_address |-> NoMac, ci_name |-> "", is_active |-> TRUE, id |-> 0,
     code |-> "", domain_id |-> 0, value_stream_id |-> 0]

\* VLANCreate
VlanReq(zone, tag, subnet, mask) ==
    [NoReq EXCEPT !.op = "create_vlan", !.zone_id = zone, !.vlan_id = tag,
                  !.subnet = subnet, !.netmask = mask]

\* IPAssignmentCreate
AssignReq(vlan, ip, mac, ci, active) ==
    [NoReq EXCEPT !.op = "assign_ip", !.vlan = vlan, !.ip_address = ip,
                  !.mac_address = mac, !.ci_name = ci, !.is_active = active]

ReleaseReq(id) == [NoReq EXCEPT !.op = "release_ip", !.id = id]

\* DomainCreate
DomainReq(code, is_active) ==
    [NoReq EXCEPT !.op = "create_domain", !.code = code,
                  !.is_active = is_active]

\* ValueStreamCreate
ValueStreamReq(domain_id, code) ==
    [NoReq EXCEPT !.op = "create_value_stream", !.domain_id = domain_id,
                  !.code = code]

\* ZoneCreate
ZoneReq(value_stream_id) ==
    [NoReq EXCEPT !.op = "create_zone", !.value_stream_id = value_stream_id]

DeleteDomainReq(id) == [NoReq EXCEPT !.op = "delete_domain", !.id = id]

\* IPAvailabilityResponse; utilization_percentage in hundredths of a
\* percent (the response carries it rounded to two decimal places)
NoStats ==
    [total_ips |-> 0, assigned_ips |-> 0, available_ips |-> 0,
     reserved_ips |-> 0, utilization_percentage |-> 0]

\* what the last finished call returned: res is "ok" or the error, id the
\* id of the row it created, changed or read, ip the address it returned,
\* stats the statistics it returned
Outcome(r, res, id) ==
    [op |-> r.op, res |-> res, id |-> id, ip |-> <<0, 0, 0, 0>>,
     stats |-> NoStats]

\* the handlers that are between the first and the last step of a call
InFlight(kind) == Cardinality({h \in Handlers : pc[h] = kind})

---------------------------------------------------------------------------
(* IPManagementService.create_domain: the row is built, then added and *)
(* committed; the unique constraint on code decides at the commit      *)

\* Column(String(10), unique=True) on domains.code
UqDomainCode(rows, row) ==
    \A i \in 1..Len(rows) : rows[i].stored => rows[i].code # row.code

CreateDomainBegin(h, code, is_active) ==
    /\ pc[h] = "ready"
    /\ Len(domains) + InFlight("domain_built") < MaxDomains
    /\ pc' = [pc EXCEPT ![h] = "domain_built"]
    /\ req' = [req EXCEPT ![h] = DomainReq(code, is_active)]
    /\ UNCHANGED <<storeVars, calcVars, last>>

\* create_domain on a table without the unique constraint on code
CreateDomainCommitUnconstrained(h) ==
    /\ pc[h] = "domain_built"
    /\ pc' = [pc EXCEPT ![h] = "ready"]
    /\ req' = [req EXCEPT ![h] = NoReq]
    /\ domains' = Append(domains, DomainRow(req[h]))
    /\ last' = Outcome(req[h], "ok", Len(domains) + 1)
    /\ UNCHANGED <<value_streams, zones, vlans, assignments, calcVars>>

\* lines 49-58: add and commit; IntegrityError is caught, rolled back and
\* raised as VLANConfigurationError
CreateDomainCommit(h) ==
    /\ pc[h] = "domain_built"
    /\ pc' = [pc EXCEPT ![h] = "ready"]
    /\ req' = [req EXCEPT ![h] = NoReq]
    /\ IF UqDomainCode(domains, DomainRow(req[h]))
       THEN /\ domains' = Append(domains, DomainRow(req[h]))
            /\ last' = Outcome(req[h], "ok", Len(domains) + 1)
       ELSE /\ last' = Outcome(req[h],
                   "VLANConfigurationError: Domain code already exists", 0)
            /\ UNCHANGED domains
    /\ UNCHANGED <<value_streams, zones, vlans, assignments, calcVars>>

---------------------------------------------------------------------------
(* IPManagementService.create_value_stream *)

\* line 78: get_domain
CreateValueStreamChecks(r) ==
    IF r.domain_id \notin DomainIds THEN "DomainNotFoundError" ELSE "ok"

\* ForeignKey("domains.id") and uq_value_stream_domain_code
ValueStreamInsertOk(rows, row) ==
    /\ row.domain_id \in DomainIds
    /\ \A i \in 1..Len(rows) :
           ~(rows[i].domain_id = row.domain_id /\ rows[i].code = row.code)

CreateValueStreamCheck(h, domain_id, code) ==
    LET r == ValueStreamReq(domain_id, code)
        res == CreateValueStreamChecks(r)
    IN  /\ pc[h] = "ready"
        /\ Len(value_streams) + InFlight("vs_checked") < MaxValueStreams
        /\ IF res = "ok"
           THEN /\ pc' = [pc EXCEPT ![h] = "vs_checked"]
                /\ req' = [req EXCEPT ![h] = r]
                /\ UNCHANGED last
           ELSE /\ last' = Outcome(r, res, 0)
                /\ UNCHANGED <<pc, req>>
        /\ UNCHANGED <<storeVars, calcVars>>

\* lines 80-93: add and commit; IntegrityError is caught, rolled back and
\* raised as VLANConfigurationError
CreateValueStreamCommit(h) ==
    /\ pc[h] = "vs_checked"
    /\ pc' = [pc EXCEPT ![h] = "ready"]
    /\ req' = [req EXCEPT ![h] = NoReq]
    /\ IF ValueStreamInsertOk(value_streams, ValueStreamRow(req[h]))
       THEN /\ value_streams' = Append(value_streams, ValueStreamRow(req[h]))
            /\ last' = Outcome(req[h], "ok", Len(value_streams) + 1)
       ELSE /\ last' = Outcome(req[h],
                   "VLANConfigurationError: Value stream code already exists",
                   0)
            /\ UNCHANGED value_streams
    /\ UNCHANGED <<domains, zones, vlans, assignments, calcVars>>

\* the outcome of one whole call that no other call interleaves with
CreateValueStream(r) ==
    IF CreateValueStreamChecks(r) # "ok" THEN CreateValueStreamChecks(r)
    ELSE IF ValueStreamInsertOk(value_streams, ValueStreamRow(r)) THEN "ok"
    ELSE "VLANConfigurationError: Value stream code already exists"

---------------------------------------------------------------------------
(* IPManagementService.create_zone *)

\* lines 106-110: get_value_stream; the security type of a ZoneCreate is
\* a member of SecurityType by its schema
CreateZoneChecks(r) ==
    IF r.value_stream_id \notin ValueStreamIds
    THEN "ValueStreamNotFoundError" ELSE "ok"

CreateZoneCheck(h, value_stream_id) ==
    LET r == ZoneReq(value_stream_id)
        res == CreateZoneChecks(r)
    IN  /\ pc[h] = "ready"
        /\ Len(zones) + InFlight("zone_checked") < MaxZones
        /\ IF res = "ok"
           THEN /\ pc' = [pc EXCEPT ![h] = "zone_checked"]
                /\ req' = [req EXCEPT ![h] = r]
                /\ UNCHANGED last
           ELSE /\ last' = Outcome(r, res, 0)
                /\ UNCHANGED <<pc, req>>
        /\ UNCHANGED <<storeVars, calcVars>>

\* lines 112-118: add and commit (value streams are never removed, so the
\* foreign key holds)
CreateZoneCommit(h) ==
    /\ pc[h] = "zone_checked"
    /\ pc' = [pc EXCEPT ![h] = "ready"]
    /\ req' = [req EXCEPT ![h] = NoReq]
    /\ zones' = Append(zones, ZoneRow(req[h]))
    /\ last' = Outcome(req[h], "ok", Len(zones) + 1)
    /\ UNCHANGED <<hierVars, vlans, assignments, calcVars>>

---------------------------------------------------------------------------
(* delete_domain: the service under src/ has no such method; its tests   *)
(* (test_domain_service.py) and the specification describe it.  A domain  *)
(* that owns a value stream is not deleted; one that owns none is removed *)

\* delete_domain that does not look for value streams
DeleteDomainUnguarded(h, id) ==
    /\ pc[h] = "ready"
    /\ IF id \notin DomainIds
       THEN /\ last' = Outcome(DeleteDomainReq(id),
                               "VLANConfigurationError: Domain not found", id)
            /\ UNCHANGED domains
       ELSE /\ domains' = [domains EXCEPT ![id].stored = FALSE]
            /\ last' = Outcome(DeleteDomainReq(id), "ok", id)
    /\ UNCHANGED <<value_streams, zones, vlans, assignments, pc, req,
                   calcVars>>

DeleteDomain(h, id) ==
    /\ pc[h] = "ready"
    /\ IF id \notin DomainIds
       THEN /\ last' = Outcome(DeleteDomainReq(id),
                               "VLANConfigurationError: Domain not found", id)
            /\ UNCHANGED domains
       ELSE IF \E v \in ValueStreamIds : value_streams[v].domain_id = id
       THEN /\ last' = Outcome(DeleteDomainReq(id),
                               "HasActiveChildrenError", id)
            /\ UNCHANGED domains
       ELSE /\ domains' = [domains EXCEPT ![id].stored = FALSE]
            /\ last' = Outcome(DeleteDomainReq(id), "ok", id)
    /\ UNCHANGED <<value_streams, zones, vlans, assignments, pc, req,
                   calcVars>>

---------------------------------------------------------------------------
(* IPManagementService.create_vlan *)

\* lines 147-163: the parent zone, the VLAN ID query and the calculation
\* create_vlan looking at the tag before it looks at the zone
CreateVlanChecksTagFirst(r) ==
    IF \E i \in VlanIds : vlans[i].vlan_id = r.vlan_id
    THEN "VLANConfigurationError: VLAN ID already exists"
    ELSE IF r.zone_id \notin ZoneIds THEN "ZoneNotFoundError"
    ELSE IF ValidateVlanConfiguration(r.vlan_id, r.subnet, r.netmask).status
            # "ok"
    THEN "VLANConfigurationError: VLAN calculation failed"
    ELSE "ok"

CreateVlanChecks(r) ==
    IF r.zone_id \notin ZoneIds THEN "ZoneNotFoundError"
    ELSE IF \E i \in VlanIds : vlans[i].vlan_id = r.vlan_id
    THEN "VLANConfigurationError: VLAN ID already exists"
    ELSE IF ValidateVlanConfiguration(r.vlan_id, r.subnet, r.netmask).status
            # "ok"
    THEN "VLANConfigurationError: VLAN calculation failed"
    ELSE "ok"


CreateVlanCheck(h, zone, tag, subnet, mask) ==
    LET r == VlanReq(zone, tag, subnet, mask)
        res == CreateVlanChecks(r)
    IN  /\ pc[h] = "ready"
        /\ Len(vlans) + InFlight("vlan_checked") < MaxVlans
        /\ IF res = "ok"
           THEN /\ pc' = [pc EXCEPT ![h] = "vlan_checked"]
                /\ req' = [req EXCEPT ![h] = r]
                /\ UNCHANGED last
           ELSE /\ last' = Outcome(r, res, 0)
                /\ UNCHANGED <<pc, req>>
        /\ UNCHANGED <<storeVars, calcVars>>

\* lines 165-183: the row with the calculated values, add and commit
CreateVlanCommit(h) ==
    LET r == req[h]
        row == VlanRow(r, ValidateVlanConfiguration(r.vlan_id, r.subnet,
                                                    r.netmask))
    IN  /\ pc[h] = "vlan_checked"
        /\ pc' = [pc EXCEPT ![h] = "ready"]
        /\ req' = [req EXCEPT ![h] = NoReq]
        /\ IF UqVlanId(vlans, row)
           THEN /\ vlans' = Append(vlans, row)
                /\ last' = Outcome(r, "ok", Len(vlans) + 1)
           ELSE /\ last' = Outcome(r, "IntegrityError", 0)
                /\ UNCHANGED vlans
        /\ UNCHANGED <<hierVars, zones, assignments, calcVars>>

\* the outcome of one whole call that no other call interleaves with
CreateVlan(r) ==
    IF CreateVlanChecks(r) # "ok" THEN CreateVlanChecks(r)
    ELSE IF UqVlanId(vlans, VlanRow(r,
                 ValidateVlanConfiguration(r.vlan_id, r.subnet, r.netmask)))
    THEN "ok"
    ELSE "IntegrityError"

---------------------------------------------------------------------------
(* IPManagementService.assign_ip *)

\* ipaddress.IPv4Network(f"{vlan.subnet}/{vlan.netmask}", strict=False):
\* the prefix length, -1 for NetmaskValueError, -2 for AddressValueError
\* (a stored "/p" gives "subnet//p": only one '/' permitted)
VlanNetworkPrefix(vlan) ==
    IF vlan.netmask.form = "cidr" THEN -2
    ELSE IF vlan.netmask.form = "dotted"
    THEN PrefixFromIpString(vlan.netmask.octets)
    ELSE -1

VlanNetwork(vlan) == IPv4Network(vlan.subnet, VlanNetworkPrefix(vlan))

\* lines 213-227: the VLAN lookup and the membership checks
AssignMembership(r) ==
    LET p == VlanNetworkPrefix(vlans[r.vlan])
        vlan_network == VlanNetwork(vlans[r.vlan])
        assignable == IsIpAssignable(r.ip_address, vlan_network)
    IN  IF r.vlan \notin VlanIds THEN "VLANConfigurationError: VLAN not found"
        ELSE IF ~IsValidAddr(r.ip_address) \/ p = -2
        THEN "IPAllocationError: Invalid IP address"
        ELSE IF p = -1 THEN "NetmaskValueError"
        ELSE IF ~InNetwork(r.ip_address, vlan_network)
        THEN "IPAllocationError: not in VLAN subnet"
        ELSE IF assignable = "ValueError" THEN "ValueError"
        ELSE IF assignable = "False" THEN "ReservedIPError"
        ELSE "ok"

\* lines 229-234: the query for an existing address
AssignAddressQuery(r) ==
    IF \E i \in AssignmentIds : assignments[i].ip_address = r.ip_address
    THEN "IPAllocationError: IP already assigned"
    ELSE "ok"

\* lines 236-242: the query for an existing MAC, made when one is given
AssignMacQuery(r) ==
    IF r.mac_address # NoMac
       /\ \E i \in AssignmentIds : assignments[i].mac_address = r.mac_address
    THEN "IPAllocationError: MAC address already assigned"
    ELSE "ok"

\* lines 229-242: the two queries one after the other on one store
AssignConflicts(r) ==
    IF AssignAddressQuery(r) # "ok" THEN AssignAddressQuery(r)
    ELSE AssignMacQuery(r)

AssignChecks(r) ==
    LET m == AssignMembership(r)
    IN  IF m # "ok" THEN m ELSE AssignConflicts(r)

\* the calls that have passed a query and have not committed yet
AssignInFlight == InFlight("assign_address_checked") + InFlight("assign_checked")

\* lines 213-234: the VLAN lookup, the membership checks and the address
\* query.  A request without a MAC makes no further query (line 237) and
\* goes on to the commit.
AssignCheck(h, vlan, ip, mac, ci, active) ==
    LET r == AssignReq(vlan, ip, mac, ci, active)
        res == IF AssignMembership(r) # "ok" THEN AssignMembership(r)
               ELSE AssignAddressQuery(r)
    IN  /\ pc[h] = "ready"
        /\ Len(assignments) + AssignInFlight < MaxAssignments
        /\ IF res = "ok"
           THEN /\ pc' = [pc EXCEPT ![h] =
                              IF mac = NoMac THEN "assign_checked"
                              ELSE "assign_address_checked"]
                /\ req' = [req EXCEPT ![h] = r]
                /\ UNCHANGED last
           ELSE /\ last' = Outcome(r, res, 0)
                /\ UNCHANGED <<pc, req>>
        /\ UNCHANGED <<storeVars, calcVars>>

\* lines 236-242: the MAC query, on the store as it is by then
AssignMacCheck(h) ==
    /\ pc[h] = "assign_address_checked"
    /\ IF AssignMacQuery(req[h]) = "ok"
       THEN /\ pc' = [pc EXCEPT ![h] = "assign_checked"]
            /\ UNCHANGED <<req, last>>
       ELSE /\ pc' = [pc EXCEPT ![h] = "ready"]
            /\ req' = [req EXCEPT ![h] = NoReq]
            /\ last' = Outcome(req[h], AssignMacQuery(req[h]), 0)
    /\ UNCHANGED <<storeVars, calcVars>>

\* a table ip_assignments without its unique constraints
AssignInsertUnconstrained(rows, row) == TRUE

\* the constraints of table ip_assignments, checked by the store at commit
AssignInsertOk(rows, row) == UqIpAddress(rows, row) /\ UqMacAddress(rows, row)

\* assign_ip whose refused row stays in the table, marked inactive
AssignCommitKeepsRefusedRow(h) ==
    LET r == req[h]
        row == AssignmentRow(r)
    IN  /\ pc[h] = "assign_checked"
        /\ pc' = [pc EXCEPT ![h] = "ready"]
        /\ req' = [req EXCEPT ![h] = NoReq]
        /\ IF AssignInsertOk(assignments, row)
           THEN /\ assignments' = Append(assignments, row)
                /\ last' = Outcome(r, "ok", Len(assignments) + 1)
           ELSE /\ last' = Outcome(r, "IntegrityError", 0)
                /\ assignments' =
                       Append(assignments, [row EXCEPT !.is_active = FALSE])
        /\ UNCHANGED <<hierVars, zones, vlans, calcVars>>

\* lines 244-251: the row, add and commit
AssignCommit(h) ==
    LET r == req[h]
        row == AssignmentRow(r)
    IN  /\ pc[h] = "assign_checked"
        /\ pc' = [pc EXCEPT ![h] = "ready"]
        /\ req' = [req EXCEPT ![h] = NoReq]
        /\ IF AssignInsertOk(assignments, row)
           THEN /\ assignments' = Append(assignments, row)
                /\ last' = Outcome(r, "ok", Len(assignments) + 1)
           ELSE /\ last' = Outcome(r, "IntegrityError", 0)
                /\ UNCHANGED assignments
        /\ UNCHANGED <<hierVars, zones, vlans, calcVars>>

\* assign_ip run from its first line to its last with no other handler
\* in between: what the call returns in the current store
AssignIp(r) ==
    IF AssignChecks(r) # "ok" THEN AssignChecks(r)
    ELSE IF AssignInsertOk(assignments, AssignmentRow(r)) THEN "ok"
    ELSE "IntegrityError"

---------------------------------------------------------------------------
(* IPManagementService.release_ip *)

\* release_ip erasing the row instead of marking it inactive
ReleaseIpErasing(h, id) ==
    /\ pc[h] = "ready"
    /\ IF id \in AssignmentIds
       THEN /\ assignments' = SubSeq(assignments, 1, id - 1)
                                  \o SubSeq(assignments, id + 1,
                                            Len(assignments))
            /\ last' = Outcome(ReleaseReq(id), "ok", id)
       ELSE /\ last' = Outcome(ReleaseReq(id), "not found", 0)
            /\ UNCHANGED assignments
    /\ UNCHANGED <<hierVars, zones, vlans, pc, req, calcVars>>

ReleaseIp(h, id) ==
    /\ pc[h] = "ready"
    /\ IF id \in AssignmentIds
       THEN /\ assignments' = [assignments EXCEPT ![id].is_active = FALSE]
            /\ last' = Outcome(ReleaseReq(id), "ok", id)
       ELSE /\ last' = Outcome(ReleaseReq(id), "not found", 0)
            /\ UNCHANGED assignments
    /\ UNCHANGED <<hierVars, zones, vlans, pc, req, calcVars>>

\* DELETE /ip-assignments/{id}: the status the router answers with, given
\* what release_ip returned.  The HTTPException(404) for an unknown id is
\* raised inside the try block, caught there by "except Exception" and
\* replaced by a 500.
ReleaseIpAssignment(success) == IF success THEN "204" ELSE "500"

---------------------------------------------------------------------------
(* IPManagementService.get_next_available_ip *)

\* the loop over vlan_network.hosts(), in ascending order from index i:
\* the first host that is not in assigned_set and is assignable.  For the
\* i-th host, hosts.index(host_ip) in is_ip_assignable is i, and host_ip is
\* in the network, so the call reduces to its two index comparisons.
RECURSIVE ScanHosts(_, _, _, _)
ScanHosts(first, len, assigned_set, i) ==
    IF i >= len THEN [res |-> "None", ip |-> <<0, 0, 0, 0>>]
    ELSE IF AddrAdd(first, i) \notin assigned_set
            /\ ~(i < RESERVED_START_COUNT \/ i >= len - RESERVED_END_COUNT)
    THEN [res |-> "ok", ip |-> AddrAdd(first, i)]
    ELSE ScanHosts(first, len, assigned_set, i + 1)

\* the active rows of this VLAN are the assigned set; a stored mask that
\* IPv4Network refuses raises inside the try block, and None is returned
GetNextAvailableIp(vlan) ==
    IF vlan \notin VlanIds
    THEN [res |-> "VLANConfigurationError: VLAN not found",
          ip |-> <<0, 0, 0, 0>>]
    ELSE LET assigned_set ==
                 {assignments[i].ip_address :
                      i \in {j \in AssignmentIds :
                                 /\ assignments[j].vlan_id = vlan
                                 /\ assignments[j].is_active}}
             vlan_network == VlanNetwork(vlans[vlan])
         IN  IF VlanNetworkPrefix(vlans[vlan]) < 0
             THEN [res |-> "None", ip |-> <<0, 0, 0, 0>>]
             ELSE ScanHosts(HostsFirst(vlan_network), HostsLen(vlan_network),
                            assigned_set, 0)

GetNextAvailable(vlan) ==
    /\ \A h \in Handlers : pc[h] = "ready"
    /\ LET found == GetNextAvailableIp(vlan)
       IN  last' = [op |-> "get_next_available_ip", res |-> found.res,
                    id |-> vlan, ip |-> found.ip, stats |-> NoStats]
    /\ UNCHANGED <<hierVars, zones, vlans, assignments, pc, req, calcVars>>

---------------------------------------------------------------------------
(* IPManagementService.get_ip_availability *)

\* round(n / d * 100, 2) in hundredths, for d > 0: the nearest integer to
\* 10000 * n / d
Round2(n, d) == (20000 * n + d) \div (2 * d)

\* lines 283-319; a stored mask that IPv4Network refuses raises inside the
\* try block and comes out as VLANConfigurationError
GetIpAvailability(vlan) ==
    IF vlan \notin VlanIds
    THEN [res |-> "VLANConfigurationError: VLAN not found", stats |-> NoStats]
    ELSE IF VlanNetworkPrefix(vlans[vlan]) < 0
    THEN [res |-> "VLANConfigurationError: Failed to calculate IP availability",
          stats |-> NoStats]
    ELSE LET vlan_network == VlanNetwork(vlans[vlan])
             total_hosts == NumAddresses(vlan_network) - 2
             reserved_count == RESERVED_START_COUNT + RESERVED_END_COUNT
             assigned_count ==
                 Cardinality({i \in AssignmentIds :
                                  /\ assignments[i].vlan_id = vlan
                                  /\ assignments[i].is_active})
             assignable_total == total_hosts - reserved_count
             available_count == assignable_total - assigned_count
             utilization == IF assignable_total > 0
                            THEN Round2(assigned_count, assignable_total)
                            ELSE 0
         IN  [res |-> "ok",
              stats |-> [total_ips |-> total_hosts,
                         assigned_ips |-> assigned_count,
                         available_ips |-> available_count,
                         reserved_ips |-> reserved_count,
                         utilization_percentage |-> utilization]]

GetAvailability(vlan) ==
    /\ \A h \in Handlers : pc[h] = "ready"
    /\ LET got == GetIpAvailability(vlan)
       IN  last' = [op |-> "get_ip_availability", res |-> got.res,
                    id |-> vlan, ip |-> <<0, 0, 0, 0>>, stats |-> got.stats]
    /\ UNCHANGED <<hierVars, zones, vlans, assignments, pc, req, calcVars>>

---------------------------------------------------------------------------
(* The service: a pool of request handlers over one store *)

NoPlan == [status |-> "none", network |-> NoNetwork, ranges |-> <<>>]

\* the store of the populated database: one domain, one value stream in it
\* and one zone in that, no VLAN and no assignment yet
Init ==
    /\ calc_req = NoReq
    /\ plan = NoPlan
    /\ conf = NoConf("none")
    /\ domains = <<[code |-> "MFG", is_active |-> TRUE, stored |-> TRUE]>>
    /\ value_streams = <<[domain_id |-> 1, code |-> "A2", is_active |-> TRUE]>>
    /\ zones = <<[value_stream_id |-> 1]>>
    /\ vlans = <<>>
    /\ assignments = <<>>
    /\ pc = [h \in Handlers |-> "ready"]
    /\ req = [h \in Handlers |-> NoReq]
    /\ last = Outcome(NoReq, "none", 0)

Next ==
    \/ \E h \in Handlers :
        \/ \E zone \in ZonePool, tag \in TagPool, subnet \in SubnetPool,
              mask \in MaskPool : CreateVlanCheck(h, zone, tag, subnet, mask)
        \/ CreateVlanCommit(h)
        \/ \E vlan \in 1..(MaxVlans + 1), a \in AssignPool :
               AssignCheck(h, vlan, a[1], a[2], a[3], a[4])
        \/ AssignMacCheck(h)
        \/ AssignCommit(h)
        \/ \E id \in 1..(MaxAssignments + 1) : ReleaseIp(h, id)

Spec == Init /\ [][Next]_vars

---------------------------------------------------------------------------
(***************************************************************************)
(* The service with one client, as its tests use it: every call comes to   *)
(* its end before the next one starts, and get_next_available_ip is asked  *)
(* between the calls.                                                      *)
(***************************************************************************)

NextSerial ==
    \/ \E zone \in ZonePool, tag \in TagPool, subnet \in SubnetPool,
          mask \in MaskPool : CreateVlanCheck(1, zone, tag, subnet, mask)
    \/ CreateVlanCommit(1)
    \/ \E vlan \in 1..(MaxVlans + 1), a \in AssignPool :
           AssignCheck(1, vlan, a[1], a[2], a[3], a[4])
    \/ AssignMacCheck(1)
    \/ AssignCommit(1)
    \/ \E id \in 1..(MaxAssignments + 1) : ReleaseIp(1, id)
    \/ \E vlan \in 1..(MaxVlans + 1) : GetNextAvailable(vlan)
    \/ \E vlan \in 1..(MaxVlans + 1) : GetAvailability(vlan)

SpecSerial == Init /\ [][NextSerial]_vars

---------------------------------------------------------------------------
(***************************************************************************)
(* The hierarchy: domains, value streams, zones and VLANs created (and     *)
(* domains deleted) by concurrent handlers, from an empty database or from *)
(* the populated one.                                                      *)
(***************************************************************************)

DomainCodePool == {"MFG", "LOG"}
ValueStreamCodePool == {"A2"}
HierTagPool == {100}
HierMaskPool == {Dotted(<<255, 255, 255, 240>>)}
\* a network address and an address with host bits set under that mask
HierSubnetPool == {<<10, 1, 0, 0>>, <<10, 1, 0, 1>>}

InitHier ==
    /\ calc_req = NoReq
    /\ plan = NoPlan
    /\ conf = NoConf("none")
    /\ \/ /\ domains = <<>>
          /\ value_streams = <<>>
          /\ zones = <<>>
       \/ /\ domains = <<[code |-> "MFG", is_active |-> TRUE,
                          stored |-> TRUE]>>
          /\ value_streams = <<[domain_id |-> 1, code |-> "A2",
                                is_active |-> TRUE]>>
          /\ zones = <<[value_stream_id |-> 1]>>
    /\ vlans = <<>>
    /\ assignments = <<>>
    /\ pc = [h \in Handlers |-> "ready"]
    /\ req = [h \in Handlers |-> NoReq]
    /\ last = Outcome(NoReq, "none", 0)

NextHier ==
    \E h \in Handlers :
        \/ \E code \in DomainCodePool, is_active \in BOOLEAN :
               CreateDomainBegin(h, code, is_active)
        \/ CreateDomainCommit(h)
        \/ \E domain_id \in 1..(MaxDomains + 1),
              code \in ValueStreamCodePool :
               CreateValueStreamCheck(h, domain_id, code)
        \/ CreateValueStreamCommit(h)
        \/ \E value_stream_id \in 1..(MaxValueStreams + 1) :
               CreateZoneCheck(h, value_stream_id)
        \/ CreateZoneCommit(h)
        \/ \E zone \in 1..(MaxZones + 1), tag \in HierTagPool,
              subnet \in HierSubnetPool, mask \in HierMaskPool :
               CreateVlanCheck(h, zone, tag, subnet, mask)
        \/ CreateVlanCommit(h)
        \/ \E id \in 1..(MaxDomains + 1) : DeleteDomain(h, id)

SpecHier == InitHier /\ [][NextHier]_vars

---------------------------------------------------------------------------
(***************************************************************************)
(* The calculator on its own: calculate_subnet_info and                    *)
(* validate_vlan_configuration (POST /vlans/calculate) applied to requests *)
(* drawn from bounded sets, one request per run (the calculator keeps no   *)
(* state between calls).  Prefix lengths 0 and 1 are left out: their    *)
(* networks have 2^31 addresses and more, beyond TLC's integers.           *)
(***************************************************************************)

MinCalcPrefix == 2

CalcSubnetPool ==
    {<<192, 168, 1, 0>>, <<10, 0, 0, 0>>, <<10, 1, 0, 5>>,
     <<172, 16, 255, 200>>, <<256, 0, 0, 0>>}

CalcMaskPool ==
    {Cidr(p) : p \in MinCalcPrefix..33}
    \cup {Dotted(NetmaskOctets(p)) : p \in MinCalcPrefix..32}
    \cup {Dotted(<<0, 1, 255, 255>>), Dotted(<<255, 0, 255, 0>>),
          Dotted(<<255, 255, 256, 0>>), TextMask}

CalcTagPool == {0, 1, 100, 4094, 4095}

CalcReq(op, tag, subnet, mask) ==
    [NoReq EXCEPT !.op = op, !.vlan_id = tag, !.subnet = subnet,
                  !.netmask = mask]

Partition(subnet, mask) ==
    /\ calc_req = NoReq
    /\ calc_req' = CalcReq("calculate_subnet_info", 0, subnet, mask)
    /\ plan' = CalculateSubnetInfo(subnet, mask)
    /\ conf' = NoConf("none")
    /\ UNCHANGED <<storeVars, pc, req, last>>

Validate(tag, subnet, mask) ==
    /\ calc_req = NoReq
    /\ calc_req' = CalcReq("validate_vlan_configuration", tag, subnet, mask)
    /\ plan' = IF 1 <= tag /\ tag <= 4094
               THEN CalculateSubnetInfo(subnet, mask) ELSE NoPlan
    /\ conf' = ValidateVlanConfiguration(tag, subnet, mask)
    /\ UNCHANGED <<storeVars, pc, req, last>>

\* the addresses a plan is probed with: those around each boundary of its
\* ranges, and one address far from the network
ProbePool(net) ==
    {a \in {AddrAdd(net.addr, k) : k \in {-1, 0, 1, 5, 6, 7, 8}}
            \cup {AddrAdd(Broadcast(net), k) : k \in {-3, -2, -1, 0, 1}}
            \cup {<<8, 8, 8, 8>>} : IsValidAddr(a)}

\* membership of one address in the plan of the last partition
Classify(ip) ==
    /\ calc_req.op = "calculate_subnet_info"
    /\ plan.status = "ok"
    /\ last.op = "none"
    /\ calc_req' = [calc_req EXCEPT !.ip_address = ip]
    /\ last' = [op |-> "membership", res |-> Membership(ip, plan.network),
                id |-> 0, ip |-> ip, stats |-> NoStats]
    /\ UNCHANGED <<plan, conf, storeVars, pc, req>>

NextCalc ==
    \/ \E subnet \in CalcSubnetPool, mask \in CalcMaskPool :
           Partition(subnet, mask)
    \/ \E ip \in ProbePool(plan.network) : Classify(ip)
    \/ \E tag \in CalcTagPool, subnet \in CalcSubnetPool,
          mask \in CalcMaskPool : Validate(tag, subnet, mask)

SpecCalc == Init /\ [][NextCalc]_vars

---------------------------------------------------------------------------
(* Claims about the allocation service (specification Spec) *)

ActiveIds == {i \in AssignmentIds : assignments[i].is_active}

\* C1: when concurrent assign calls ask for the same address of the same
\* VLAN with distinct MACs, a call that finishes after another one has
\* taken the address creates nothing and fails with the
\* address-already-assigned error, whatever the interleaving of the checks
\* and the commits.
C1_RaceLoserGetsConflictError ==
    [][\A h \in Handlers :
         ( /\ pc[h] = "assign_checked"
           /\ pc'[h] = "ready"
           /\ \E i \in AssignmentIds :
                  /\ assignments[i].ip_address = req[h].ip_address
                  /\ assignments[i].vlan_id = req[h].vlan
                  /\ assignments[i].mac_address # req[h].mac_address
           /\ \A i \in AssignmentIds :
                  req[h].mac_address = NoMac
                  \/ assignments[i].mac_address # req[h].mac_address )
         => ( /\ assignments' = assignments
              /\ last'.res = "IPAllocationError: IP already assigned" )]_vars

\* C2: no two active assignments have the same ip_address, and no two
\* active assignments that both carry a MAC have the same mac_address.
C2_ActiveAddressesUnique ==
    \A i \in ActiveIds : \A j \in ActiveIds :
        i # j =>
            /\ assignments[i].ip_address # assignments[j].ip_address
            /\ ( assignments[i].mac_address # NoMac
                 /\ assignments[j].mac_address # NoMac
                 => assignments[i].mac_address # assignments[j].mac_address )

\* two handlers raced for an address or a MAC: one row is active and the
\* other handler's commit was refused by the store
C2_Witness ==
    /\ last.op = "assign_ip"
    /\ last.res = "IntegrityError"
    /\ ActiveIds # {}

\* assign for the address of row i on the same VLAN succeeds for every MAC
\* that no active assignment holds
Reassignable(i) ==
    \A mac \in MacPool, ci \in CiNamePool :
        ( mac = NoMac
          \/ \A j \in ActiveIds : assignments[j].mac_address # mac )
        => AssignIp(AssignReq(assignments[i].vlan_id,
                              assignments[i].ip_address, mac, ci, TRUE)) = "ok"

\* C3: after release of the active assignment that held address X, assign
\* for X on the same VLAN, with a MAC no active assignment holds, succeeds:
\* a released address behaves like a free one.
C3_ReleasedAddressReassignable ==
    [][\A i \in AssignmentIds :
         ( /\ assignments[i].is_active
           /\ last' = Outcome(ReleaseReq(i), "ok", i)
           /\ ~assignments'[i].is_active )
         => Reassignable(i)']_vars

\* C4: every active assignment's ip_address lies within the assignable
\* range stored on its own VLAN, net_start <= ip <= net_end.
C4_ActiveWithinStoredRange ==
    \A i \in ActiveIds :
        /\ AddrLE(vlans[assignments[i].vlan_id].net_start,
                  assignments[i].ip_address)
        /\ AddrLE(assignments[i].ip_address,
                  vlans[assignments[i].vlan_id].net_end)

\* the reserved addresses of a stored VLAN: its first six host addresses,
\* from the gateway on, and its last host address
ReservedAddresses(v) ==
    {AddrAdd(vlans[v].default_gateway, k) : k \in 0..5}
    \cup {AddrAdd(vlans[v].net_end, 1)}

\* C5: assign for any reserved address of an existing VLAN fails with the
\* reserved-address error, whatever MAC and device name are supplied.
C5_ReservedAddressRejected ==
    \A v \in VlanIds : \A ip \in ReservedAddresses(v) :
        \A mac \in MacPool, ci \in CiNamePool :
            AssignIp(AssignReq(v, ip, mac, ci, TRUE)) = "ReservedIPError"

\* the smallest address of the stored assignable range of VLAN v that no
\* active assignment holds; with at most Len(assignments) addresses held,
\* it is among the first Len(assignments) + 1 addresses of the range
FreeInStoredRange(v) ==
    LET size == AddrDiff(vlans[v].net_end, vlans[v].net_start) + 1
        last_k == IF size - 1 < Len(assignments) THEN size - 1
                  ELSE Len(assignments)
    IN  {a \in {AddrAdd(vlans[v].net_start, k) : k \in 0..last_k} :
            \A i \in ActiveIds : assignments[i].ip_address # a}

\* C14: next_free(vlan) returns the numerically smallest address of the
\* VLAN's assignable range that no active assignment holds, and None
\* exactly when every address of the range is held by an active assignment.
C14_NextFreeIsSmallestFree ==
    (last.op = "get_next_available_ip" /\ last.id \in VlanIds)
    => IF FreeInStoredRange(last.id) = {}
       THEN last.res = "None"
       ELSE /\ last.res = "ok"
            /\ last.ip \in FreeInStoredRange(last.id)
            /\ \A a \in FreeInStoredRange(last.id) : AddrLE(last.ip, a)

\* a step that is a call of release
IsReleaseStep == last'.op = "release_ip" /\ pc' = pc

\* C15: release of an existing assignment changes only that record's
\* active flag, to inactive; the record stays in the store and every other
\* assignment and every VLAN is unchanged.  Release of an unknown id
\* reports not-found and changes nothing.
C15_ReleaseFrame ==
    [][IsReleaseStep
       => /\ vlans' = vlans
          /\ IF last'.res = "ok"
             THEN /\ last'.id \in AssignmentIds
                  /\ assignments' =
                         [assignments EXCEPT ![last'.id].is_active = FALSE]
                  /\ ReleaseIpAssignment(TRUE) = "204"
             ELSE /\ assignments' = assignments
                  /\ ReleaseIpAssignment(FALSE) = "404"]_vars

\* C16: the assignment store is append-only: a record that exists in some
\* state exists in every later state with the same vlan, ip_address and
\* mac_address, and a record that has become inactive never becomes active
\* again.
C16_AppendOnlyAuditTrail ==
    [][\A i \in AssignmentIds :
           /\ i \in 1..Len(assignments')
           /\ assignments'[i].vlan_id = assignments[i].vlan_id
           /\ assignments'[i].ip_address = assignments[i].ip_address
           /\ assignments'[i].mac_address = assignments[i].mac_address
           /\ ~assignments[i].is_active => ~assignments'[i].is_active]_vars

\* the first of two records was released and both are still in the store
C16_Witness ==
    /\ Len(assignments) = 2
    /\ assignments[1].ip_address = <<10, 1, 0, 7>>
    /\ ~assignments[1].is_active
    /\ assignments[2].is_active
    /\ last = Outcome(ReleaseReq(1), "ok", 1)

UniqueVlanTags ==
    \A i \in VlanIds : \A j \in VlanIds :
        (i # j /\ vlans[i].is_active /\ vlans[j].is_active)
        => vlans[i].vlan_id # vlans[j].vlan_id

\* C17: under any interleaving of create_vlan calls no two active VLANs
\* have the same tag, and a create_vlan that comes to its end while its tag
\* is held by a VLAN fails with the duplicate-tag error and adds no VLAN.
C17_DuplicateTagRejected ==
    [][/\ UniqueVlanTags'
       /\ \A h \in Handlers :
              ( /\ pc[h] = "vlan_checked"
                /\ pc'[h] = "ready"
                /\ \E i \in VlanIds : vlans[i].vlan_id = req[h].vlan_id )
              => ( /\ vlans' = vlans
                   /\ last'.res =
                          "VLANConfigurationError: VLAN ID already exists" )
      ]_vars

\* the step is the end of an assign call that failed: a check that
\* refused the request, or a commit that the store refused
IsFailedAssignStep ==
    /\ last'.op = "assign_ip"
    /\ last'.res # "ok"
    /\ \/ last' # last
       \/ \E h \in Handlers :
              /\ pc[h] \in {"assign_address_checked", "assign_checked"}
              /\ pc'[h] = "ready"

\* C25: every assign call that fails, for whatever reason (unknown VLAN,
\* address outside the subnet, reserved address, address or MAC already
\* held, a commit lost to a concurrent call), leaves the assignments and
\* the VLANs exactly as they were: nothing is partially committed.
C25_FailedAssignChangesNothing ==
    [][IsFailedAssignStep => UNCHANGED storeVars]_vars

\* two calls passed their checks for one address; the first commit stored
\* its row and the second was refused, leaving that single row
C25_Witness ==
    /\ last.op = "assign_ip"
    /\ last.res = "IntegrityError"
    /\ Len(assignments) = 1
    /\ \A h \in Handlers : pc[h] = "ready"

---------------------------------------------------------------------------
(* Claims about the service with one client (specification SpecSerial) *)

\* the number of host addresses of the plan stored on VLAN v: from the
\* gateway (the first host) to the address after net_end (the last host)
StoredHostCount(v) ==
    AddrDiff(vlans[v].net_end, vlans[v].default_gateway) + 2

ActiveIn(v) == {i \in ActiveIds : assignments[i].vlan_id = v}

\* C21: utilization of an existing VLAN with H host addresses reports
\* assignable_count = H - 7, assigned_count = the number of its active
\* assignments and available_count = their difference, with
\* 0 <= assigned_count <= assignable_count and the percentage within
\* 0..100; it is 0 when assignable_count is 0.
C21_UtilizationCounts ==
    (last.op = "get_ip_availability" /\ last.id \in VlanIds)
    => LET assignable == last.stats.total_ips - last.stats.reserved_ips
       IN  /\ last.res = "ok"
           /\ assignable = StoredHostCount(last.id) - 7
           /\ last.stats.assigned_ips = Cardinality(ActiveIn(last.id))
           /\ last.stats.available_ips =
                  assignable - last.stats.assigned_ips
           /\ 0 <= last.stats.assigned_ips
           /\ last.stats.assigned_ips <= assignable
           /\ last.stats.utilization_percentage \in 0..10000
           /\ assignable = 0 => last.stats.utilization_percentage = 0

\* the network of the plan stored on VLAN v: from the address before the
\* gateway to the address after the last host
StoredNetworkAddress(v) == AddrAdd(vlans[v].default_gateway, -1)
StoredBroadcast(v) == AddrAdd(vlans[v].net_end, 2)

\* two address intervals [a1, b1] and [a2, b2] have an address in common
Overlap(a1, b1, a2, b2) == AddrLE(a1, b2) /\ AddrLE(a2, b1)

\* C23: create_vlan of a subnet that overlaps the subnet of an existing
\* VLAN fails with a network-overlap error and adds no VLAN, so the
\* subnets of any two stored VLANs are disjoint.
C23_NoOverlappingVlans ==
    /\ \A zone \in ZoneIds, tag \in TagPool, subnet \in SubnetPool,
          mask \in MaskPool :
           LET c == ValidateVlanConfiguration(tag, subnet, mask)
           IN  ( /\ c.status = "ok"
                 /\ \E v \in VlanIds :
                        Overlap(c.network.addr, Broadcast(c.network),
                                StoredNetworkAddress(v), StoredBroadcast(v)) )
               => CreateVlan(VlanReq(zone, tag, subnet, mask)) # "ok"
    /\ \A i \in VlanIds : \A j \in VlanIds :
           i # j => ~Overlap(StoredNetworkAddress(i), StoredBroadcast(i),
                             StoredNetworkAddress(j), StoredBroadcast(j))

\* the first failure condition of an assign request in the claimed order,
\* read off the store: the VLAN, the assignable range stored on it, the
\* addresses and the MACs of the active assignments
FirstFailure(r) ==
    IF r.vlan \notin VlanIds THEN "vlan"
    ELSE IF ~( /\ AddrLE(vlans[r.vlan].net_start, r.ip_address)
               /\ AddrLE(r.ip_address, vlans[r.vlan].net_end) )
    THEN "membership"
    ELSE IF \E i \in ActiveIds : assignments[i].ip_address = r.ip_address
    THEN "address"
    ELSE IF r.mac_address # NoMac
            /\ \E i \in ActiveIds : assignments[i].mac_address = r.mac_address
    THEN "mac"
    ELSE "none"

\* the place of an assign_ip error in the claimed order
ErrorKind(res) ==
    IF res = "VLANConfigurationError: VLAN not found" THEN "vlan"
    ELSE IF res \in {"IPAllocationError: not in VLAN subnet", "ReservedIPError"}
    THEN "membership"
    ELSE IF res = "IPAllocationError: IP already assigned" THEN "address"
    ELSE IF res = "IPAllocationError: MAC address already assigned" THEN "mac"
    ELSE IF res = "ok" THEN "none"
    ELSE "fault"

\* C26: assign reports its errors in a fixed order: unknown VLAN, then
\* address not in the subnet or reserved, then address already assigned,
\* then MAC already assigned; of the failure conditions that hold for a
\* request the earliest in this order is the one reported.
C26_AssignErrorOrder ==
    \A vlan \in 1..(MaxVlans + 1), a \in AssignPool :
        LET r == AssignReq(vlan, a[1], a[2], a[3], a[4])
        IN  FirstFailure(r) # "none"
            => ErrorKind(AssignIp(r)) = FirstFailure(r)

\* C27: create_vlan stores on the VLAN the gateway, net_start and net_end
\* of the plan that the calculator computes for the request's subnet and
\* mask (the first address of the first reserved range and the two ends of
\* the assignable range), and no later operation changes a stored VLAN's
\* tag, subnet, mask, gateway, net_start or net_end.
C27_VlanPlanStoredOnce ==
    [][/\ \A i \in VlanIds :
              /\ i \in 1..Len(vlans')
              /\ vlans'[i].vlan_id = vlans[i].vlan_id
              /\ vlans'[i].subnet = vlans[i].subnet
              /\ vlans'[i].netmask = vlans[i].netmask
              /\ vlans'[i].default_gateway = vlans[i].default_gateway
              /\ vlans'[i].net_start = vlans[i].net_start
              /\ vlans'[i].net_end = vlans[i].net_end
       /\ \A i \in (1..Len(vlans')) \ VlanIds :
              LET info == CalculateSubnetInfo(vlans'[i].subnet,
                                              vlans'[i].netmask)
              IN  /\ info.status = "ok"
                  /\ Len(info.ranges) = 3
                  /\ vlans'[i].default_gateway = info.ranges[1].start_ip
                  /\ vlans'[i].net_start = info.ranges[2].start_ip
                  /\ vlans'[i].net_end = info.ranges[2].end_ip
      ]_vars

\* a VLAN created for 10.1.0.0 / 255.255.255.240 still carries its plan
\* after an assignment on it was made and released
C27_Witness ==
    /\ Len(vlans) >= 1
    /\ vlans[1].netmask = Dotted(<<255, 255, 255, 240>>)
    /\ vlans[1].default_gateway = <<10, 1, 0, 1>>
    /\ vlans[1].net_start = <<10, 1, 0, 7>>
    /\ vlans[1].net_end = <<10, 1, 0, 13>>
    /\ last.op = "release_ip"
    /\ last.res = "ok"
    /\ assignments[last.id].vlan_id = 1

\* VLAN w is stored with the dotted-decimal form of the CIDR mask of VLAN
\* v, on the same subnet
DottedTwin(v, w) ==
    /\ vlans[v].netmask.form = "cidr"
    /\ vlans[w].netmask = Dotted(NetmaskOctets(vlans[v].netmask.prefix))
    /\ vlans[w].subnet = vlans[v].subnet

\* C28: a VLAN created with a CIDR mask "/p" behaves like a VLAN created on
\* the same network with the equivalent dotted-decimal mask: the membership
\* checks of assign and the utilization call end alike for both, assign of
\* a free address of the assignable range of the CIDR-created VLAN
\* succeeds, and next_free returns an address for it when one is free.
C28_CidrVlanWorksLikeDotted ==
    \A v \in VlanIds :
        vlans[v].netmask.form = "cidr"
        => /\ \A w \in VlanIds :
                  DottedTwin(v, w)
                  => /\ \A a \in AssignPool :
                            AssignMembership(
                                AssignReq(v, a[1], a[2], a[3], a[4]))
                            = AssignMembership(
                                  AssignReq(w, a[1], a[2], a[3], a[4]))
                     /\ GetIpAvailability(v).res = GetIpAvailability(w).res
           /\ \A a \in AssignPool :
                  ( /\ AddrLE(vlans[v].net_start, a[1])
                    /\ AddrLE(a[1], vlans[v].net_end)
                    /\ \A i \in AssignmentIds :
                           assignments[i].ip_address # a[1] )
                  => AssignIp(AssignReq(v, a[1], NoMac, a[3], TRUE)) = "ok"
           /\ FreeInStoredRange(v) # {} => GetNextAvailableIp(v).res = "ok"

\* C29: with no other operation in between, the address that next_free
\* has just returned for a VLAN can be assigned: assign of it on that VLAN,
\* with no MAC and any device name, succeeds in the same state (released
\* assignments and other VLANs containing the address notwithstanding).
C29_NextFreeIsAssignable ==
    ( /\ last.op = "get_next_available_ip"
      /\ last.res = "ok" )
    => \A ci \in CiNamePool :
           AssignIp(AssignReq(last.id, last.ip, NoMac, ci, TRUE)) = "ok"

\* C30: the membership check is total: for the network address and the
\* broadcast address of a VLAN too, is_ip_assignable answers True or False
\* and assign ends with a membership error (not in the subnet, or
\* reserved), never with an unclassified fault, and creates no assignment.
C30_MembershipTotal ==
    \A v \in VlanIds, a \in AssignPool :
        (a[1] = StoredNetworkAddress(v) \/ a[1] = StoredBroadcast(v))
        => /\ VlanNetworkPrefix(vlans[v]) >= 0
              => IsIpAssignable(a[1], VlanNetwork(vlans[v]))
                     \in {"True", "False"}
           /\ AssignIp(AssignReq(v, a[1], a[2], a[3], a[4]))
                  \in {"IPAllocationError: not in VLAN subnet",
                       "ReservedIPError"}

\* C24: every successful assign creates exactly one new assignment, and
\* that assignment is active, whatever the request's fields are (a request
\* carrying is_active = false included).
C24_SuccessfulAssignIsActive ==
    [][\A h \in Handlers :
         ( /\ pc[h] = "assign_checked"
           /\ pc'[h] = "ready"
           /\ last'.res = "ok" )
         => ( /\ Len(assignments') = Len(assignments) + 1
              /\ SubSeq(assignments', 1, Len(assignments)) = assignments
              /\ last'.id = Len(assignments')
              /\ assignments'[last'.id].ip_address = req[h].ip_address
              /\ assignments'[last'.id].is_active )]_vars

---------------------------------------------------------------------------
(* Claims about the hierarchy (specification SpecHier) *)

\* C18: a create_value_stream or create_vlan whose parent does not exist
\* and whose code or tag is that of an existing row reports the parent as
\* not found, never the uniqueness error; with the parent present and the
\* code (within that domain) or tag taken, it reports the uniqueness error.
C18_ParentCheckedBeforeUniqueness ==
    /\ \A d \in 1..(MaxDomains + 1), code \in ValueStreamCodePool :
           LET r == ValueStreamReq(d, code)
           IN  /\ ( /\ d \notin DomainIds
                    /\ \E v \in ValueStreamIds : value_streams[v].code = code )
                  => CreateValueStream(r) = "DomainNotFoundError"
               /\ ( /\ d \in DomainIds
                    /\ \E v \in ValueStreamIds :
                           /\ value_streams[v].code = code
                           /\ value_streams[v].domain_id = d )
                  => CreateValueStream(r) =
                       "VLANConfigurationError: Value stream code already exists"
    /\ \A zone \in 1..(MaxZones + 1), tag \in HierTagPool,
          subnet \in SubnetPool, mask \in HierMaskPool :
           LET r == VlanReq(zone, tag, subnet, mask)
               taken == \E i \in VlanIds : vlans[i].vlan_id = tag
           IN  /\ (zone \notin ZoneIds /\ taken)
                  => CreateVlan(r) = "ZoneNotFoundError"
               /\ (zone \in ZoneIds /\ taken)
                  => CreateVlan(r) =
                       "VLANConfigurationError: VLAN ID already exists"

\* a VLAN holds tag 100, the zone after the last one does not exist, and a
\* create_vlan has been answered with the zone not being found
C18_Witness ==
    /\ \E i \in VlanIds : vlans[i].vlan_id = 100
    /\ (Len(zones) + 1) \notin ZoneIds
    /\ last.op = "create_vlan"
    /\ last.res = "ZoneNotFoundError"

UniqueDomainCodes ==
    \A i \in DomainIds : \A j \in DomainIds :
        i # j => domains[i].code # domains[j].code

\* C19: of the create_domain calls under way with the same code exactly one
\* succeeds: a call that comes to its commit while a Domain has its code
\* fails with the duplicate-code error and leaves the store unchanged, a
\* call whose code is free adds its Domain, and no two Domains (active or
\* not) ever have the same code.
C19_OneDomainPerCode ==
    [][/\ UniqueDomainCodes'
       /\ \A h \in Handlers :
              (pc[h] = "domain_built" /\ pc'[h] = "ready")
              => IF \E i \in DomainIds : domains[i].code = req[h].code
                 THEN /\ domains' = domains
                      /\ UNCHANGED <<value_streams, zones, vlans, assignments>>
                      /\ last'.res =
                           "VLANConfigurationError: Domain code already exists"
                 ELSE /\ domains' = Append(domains, DomainRow(req[h]))
                      /\ last'.res = "ok"
      ]_vars

\* a create_domain has failed with the duplicate-code error and exactly one
\* Domain has the code LOG, which only a create_domain call can have stored
C19_Witness ==
    /\ last.op = "create_domain"
    /\ last.res = "VLANConfigurationError: Domain code already exists"
    /\ Cardinality({i \in DomainIds : domains[i].code = "LOG"}) = 1
    /\ \A i \in DomainIds : domains[i].code = "LOG"

\* every row's parent is in the store
NoOrphans ==
    /\ \A v \in ValueStreamIds : value_streams[v].domain_id \in DomainIds
    /\ \A z \in ZoneIds : zones[z].value_stream_id \in ValueStreamIds
    /\ \A i \in VlanIds : vlans[i].zone_id \in ZoneIds

OwnsValueStream(id) ==
    \E v \in ValueStreamIds : value_streams[v].domain_id = id

IsDeleteDomainStep == last'.op = "delete_domain" /\ pc' = pc

\* C20: delete_domain of a stored Domain that owns a value stream fails with
\* the has-children error and changes nothing in the store; delete_domain of
\* a stored Domain that owns none succeeds and removes that Domain and
\* nothing else; no row is ever left without its parent.
C20_DeleteDomainKeepsChildren ==
    [][/\ NoOrphans'
       /\ (IsDeleteDomainStep /\ last'.id \in DomainIds)
          => IF OwnsValueStream(last'.id)
             THEN /\ last'.res = "HasActiveChildrenError"
                  /\ UNCHANGED storeVars
             ELSE /\ last'.res = "ok"
                  /\ DomainIds' = DomainIds \ {last'.id}
                  /\ \A j \in DomainIds' : domains'[j] = domains[j]
                  /\ UNCHANGED <<value_streams, zones, vlans, assignments>>
      ]_vars

\* the domain of the populated database, which owns value stream A2, is
\* still stored after a delete_domain of it was refused
C20_Witness ==
    /\ last = Outcome(DeleteDomainReq(1), "HasActiveChildrenError", 1)
    /\ 1 \in DomainIds
    /\ OwnsValueStream(1)
    /\ NoOrphans

\* the subnet is the network address of the network that the calculator
\* builds from it and the mask
HostBitsZero(subnet, netmask) ==
    subnet = NetworkAddress(subnet, SubnetPrefix(subnet, netmask))

\* C22: create_vlan of a subnet that is not the network address under the
\* given mask (host bits set) fails with a configuration error and creates
\* no VLAN; every stored VLAN's subnet has all host bits zero.
C22_HostBitsRejected ==
    /\ \A zone \in ZoneIds, tag \in HierTagPool, subnet \in HierSubnetPool,
          mask \in HierMaskPool :
           ~HostBitsZero(subnet, mask)
           => CreateVlan(VlanReq(zone, tag, subnet, mask))
                  \in {"VLANConfigurationError: VLAN calculation failed",
                       "VLANConfigurationError: VLAN ID already exists"}
    /\ \A i \in VlanIds : HostBitsZero(vlans[i].subnet, vlans[i].netmask)

---------------------------------------------------------------------------
(* Claims about the calculator (specification SpecCalc) *)

IsPartitionCall ==
    /\ calc_req.op \in {"calculate_subnet_info", "validate_vlan_configuration"}
    /\ plan.status # "none"
    /\ IsValidAddr(calc_req.subnet)

\* the prefix length a mask denotes: "/p", or the dotted-decimal mask with
\* exactly p leading one-bits; -1 for any other mask
DenotedPrefix(mask) ==
    IF mask.form = "cidr" /\ mask.prefix \in 0..32 THEN mask.prefix
    ELSE IF mask.form = "dotted"
            /\ \E p \in 0..32 : mask.octets = NetmaskOctets(p)
    THEN CHOOSE p \in 0..32 : mask.octets = NetmaskOctets(p)
    ELSE -1

\* the host addresses of a network of prefix length p: H = 2^(32-p) - 2
HostCount(p) == Pow2(32 - p) - 2

\* the broadcast address of a network: n + 2^(32-p) - 1
LastAddress(net) == AddrAdd(net.addr, Pow2(32 - net.prefix) - 1)

\* C6: partition of a /29 network (e.g. 192.168.1.0 with mask /29) is
\* accepted, not rejected, and yields three ranges whose assignable range is
\* the single address network+7; a /29 is the minimum legal subnet.
C6_Slash29Accepted ==
    (IsPartitionCall /\ DenotedPrefix(calc_req.netmask) = 29)
    => /\ plan.status = "ok"
       /\ Len(plan.ranges) = 3
       /\ plan.ranges[2] = IPRange(AddrAdd(plan.network.addr, 7),
                                   AddrAdd(plan.network.addr, 7), FALSE)

\* C7: with H = 2^(32-p) - 2 host addresses, partition fails with the
\* network-too-small error exactly when H < 8 and succeeds when H >= 8.
C7_TooSmallExactlyBelow8Hosts ==
    (IsPartitionCall /\ DenotedPrefix(calc_req.netmask) # -1)
    => /\ HostCount(DenotedPrefix(calc_req.netmask)) < 8
          => plan.status = "InsufficientIPSpaceError"
       /\ HostCount(DenotedPrefix(calc_req.netmask)) >= 8
          => plan.status = "ok"

C7_Witness ==
    /\ calc_req = CalcReq("calculate_subnet_info", 0, <<192, 168, 1, 0>>,
                          Cidr(30))
    /\ plan.status = "InsufficientIPSpaceError"

\* C8: for every accepted network with network address n and broadcast
\* address b, partition returns, in this order, the reserved range
\* [n+1 .. n+6], the assignable range [n+7 .. b-2] and the reserved range
\* [b-1 .. b-1], and the gateway is n+1.
C8_RangeLayout ==
    (IsPartitionCall /\ plan.status = "ok")
    => LET n == plan.network.addr
           b == LastAddress(plan.network)
       IN  /\ plan.ranges = <<IPRange(AddrAdd(n, 1), AddrAdd(n, 6), TRUE),
                              IPRange(AddrAdd(n, 7), AddrAdd(b, -2), FALSE),
                              IPRange(AddrAdd(b, -1), AddrAdd(b, -1), TRUE)>>
           /\ conf.status = "ok" => conf.default_gateway = AddrAdd(n, 1)

C8_Witness ==
    /\ calc_req = CalcReq("validate_vlan_configuration", 100,
                          <<192, 168, 1, 0>>, Cidr(24))
    /\ plan.ranges = <<IPRange(<<192, 168, 1, 1>>, <<192, 168, 1, 6>>, TRUE),
                       IPRange(<<192, 168, 1, 7>>, <<192, 168, 1, 253>>, FALSE),
                       IPRange(<<192, 168, 1, 254>>, <<192, 168, 1, 254>>,
                               TRUE)>>
    /\ conf.default_gateway = <<192, 168, 1, 1>>

RangeSize(r) == AddrDiff(r.end_ip, r.start_ip) + 1

RangesDisjoint(r, q) ==
    AddrLT(r.end_ip, q.start_ip) \/ AddrLT(q.end_ip, r.start_ip)

\* C9: for every plan that partition returns, the two reserved ranges and
\* the assignable range are pairwise disjoint, each is non-empty with
\* start <= end, and their union is exactly the set of host addresses:
\* every range lies strictly between the network and broadcast addresses,
\* and the sizes of the disjoint ranges add up to the number of hosts.
C9_RangesPartitionHosts ==
    (IsPartitionCall /\ plan.status = "ok")
    => LET rs == plan.ranges
           n == plan.network.addr
           b == LastAddress(plan.network)
       IN  /\ Len(rs) = 3
           /\ Cardinality({i \in 1..3 : rs[i].is_reserved}) = 2
           /\ \A i \in 1..3 :
                  /\ AddrLE(rs[i].start_ip, rs[i].end_ip)
                  /\ AddrLT(n, rs[i].start_ip)
                  /\ AddrLT(rs[i].end_ip, b)
           /\ \A i \in 1..3 : \A j \in 1..3 :
                  i # j => RangesDisjoint(rs[i], rs[j])
           /\ RangeSize(rs[1]) + RangeSize(rs[2]) + RangeSize(rs[3])
              = AddrDiff(b, n) - 1

C9_Witness ==
    /\ calc_req = CalcReq("calculate_subnet_info", 0, <<10, 0, 0, 0>>,
                          Cidr(16))
    /\ plan.status = "ok"
    /\ plan.ranges[2].end_ip = <<10, 0, 255, 253>>

\* C10: for every accepted network with H host addresses,
\* validate_vlan_configuration reports assignable_ips = H - 7 and
\* total_ips = H.
C10_AssignableCount ==
    conf.status = "ok"
    => /\ conf.total_ips = HostCount(conf.network.prefix)
       /\ conf.assignable_ips = HostCount(conf.network.prefix) - 7

InRange(a, r) == AddrLE(r.start_ip, a) /\ AddrLE(a, r.end_ip)

\* C11: for every accepted plan and every probed address a, membership
\* classifies a as Assignable exactly when a is in the plan's assignable
\* range, as Reserved exactly when a is in one of its reserved ranges, and
\* as NotInNetwork when a is outside the network.
C11_MembershipAgreesWithRanges ==
    (last.op = "membership" /\ plan.status = "ok")
    => LET a == calc_req.ip_address
           rs == plan.ranges
           n == plan.network.addr
           b == LastAddress(plan.network)
       IN  /\ last.res = "Assignable"
              <=> \E i \in 1..Len(rs) : ~rs[i].is_reserved /\ InRange(a, rs[i])
           /\ last.res = "Reserved"
              <=> \E i \in 1..Len(rs) : rs[i].is_reserved /\ InRange(a, rs[i])
           /\ (AddrLT(a, n) \/ AddrLT(b, a)) => last.res = "NotInNetwork"

C11_Witness ==
    /\ calc_req.subnet = <<192, 168, 1, 0>>
    /\ calc_req.netmask = Cidr(24)
    /\ calc_req.ip_address = <<192, 168, 1, 7>>
    /\ last = [op |-> "membership", res |-> "Assignable", id |-> 0,
               ip |-> <<192, 168, 1, 7>>, stats |-> NoStats]

\* the same prefix length in the other input form
OtherForm(mask) ==
    IF mask.form = "cidr" THEN Dotted(NetmaskOctets(DenotedPrefix(mask)))
    ELSE Cidr(DenotedPrefix(mask))

\* C12: for every subnet and every prefix length p, the calculator called
\* with "/p" and called with the dotted-decimal mask of p leading one-bits
\* give the same outcome: the same network, gateway and ranges, or the
\* same error.
C12_MaskFormsEquivalent ==
    DenotedPrefix(calc_req.netmask) # -1
    => /\ calc_req.op = "calculate_subnet_info"
          => plan = CalculateSubnetInfo(calc_req.subnet,
                                        OtherForm(calc_req.netmask))
       /\ calc_req.op = "validate_vlan_configuration"
          => conf = ValidateVlanConfiguration(calc_req.vlan_id,
                                              calc_req.subnet,
                                              OtherForm(calc_req.netmask))

C12_Witness ==
    /\ calc_req.op = "validate_vlan_configuration"
    /\ calc_req.subnet = <<172, 16, 255, 200>>
    /\ calc_req.netmask = Dotted(<<255, 255, 255, 192>>)
    /\ conf.status = "ok"
    /\ conf.network = [addr |-> <<172, 16, 255, 192>>, prefix |-> 26]
    /\ conf.default_gateway = <<172, 16, 255, 193>>

\* C13: partition fails with the malformed-mask error, and returns no plan,
\* for every mask that does not denote a prefix length 0..32: a CIDR suffix
\* outside 0..32, a non-numeric mask, and a dotted-decimal value whose
\* one-bits are not a single leading run.
C13_MalformedMaskRejected ==
    ( /\ calc_req.op = "calculate_subnet_info"
      /\ DenotedPrefix(calc_req.netmask) = -1 )
    => plan.status = "InvalidSubnetError" /\ plan.ranges = <<>>

=============================================================================
